---- MODULE Spec2Model ----
(***************************************************************************)
(* Model of the heartbeat package: the dependency-check aggregator         *)
(* (checkDeps), the handler executor (executeHandlerWithTimeout), the URL  *)
(* prober (checkURL) and the status-to-HTTP mapping of Handler.            *)
(*                                                                         *)
(* One checkDeps invocation is modelled.  Unit i is the goroutine that     *)
(* checkDeps starts for deps[i]; a handler unit starts one more goroutine  *)
(* that runs the handler function.  Durations are in milliseconds.         *)
(***************************************************************************)
EXTENDS Integers, Sequences, FiniteSets, TLC

\* ------------------------------------------------------------------ bounds
MaxDeps == 2

\* --------------------------------------------------------------- constants
StatusNotSet == 0
StatusOK == 1
StatusWarning == 2
StatusCritical == 3

DefaultTimeout == 10000
SlowThreshold == 3000
ChanCap == 1

StatusOKHttp == 200
StatusServiceUnavailable == 503

NoMsg == [text |-> "", arg |-> ""]

\* The zero value of StatusResult.
ZeroResult ==
  [Status |-> StatusNotSet, Name |-> "", Resource |-> "",
   RequestDuration |-> 0, StatusCode |-> 0, Message |-> NoMsg]

\* time.Duration's %v rendering, for whole milliseconds below one minute:
\* "0s", "50ms", "3s", "3.001s", "1.5s".
FracString(f) ==
  IF f % 100 = 0 THEN ToString(f \div 100)
  ELSE IF f % 10 = 0 THEN (IF f < 100 THEN "0" ELSE "") \o ToString(f \div 10)
  ELSE (IF f < 10 THEN "00" ELSE IF f < 100 THEN "0" ELSE "") \o ToString(f)

DurationString(ms) ==
  IF ms = 0 THEN "0s"
  ELSE IF ms < 1000 THEN ToString(ms) \o "ms"
  ELSE IF ms % 1000 = 0 THEN ToString(ms \div 1000) \o "s"
  ELSE ToString(ms \div 1000) \o "." \o FracString(ms % 1000) \o "s"

\* ------------------------------------------------- handler functions (input)
\* A handler function is identified by a name; Behaviour gives what a call of
\* it does: return a StatusResult, panic with a value, or never return.
Behaviour(h) ==
  CASE h = "ok" ->
         [kind |-> "return",
          result |-> [Status |-> StatusOK, Name |-> "own-name", Resource |-> "test-resource",
                      RequestDuration |-> 0, StatusCode |-> 0,
                      Message |-> [text |-> "completed successfully", arg |-> ""]]]
    [] h = "warnBare" ->
         [kind |-> "return",
          result |-> [Status |-> StatusWarning, Name |-> "", Resource |-> "",
                      RequestDuration |-> 7, StatusCode |-> 0,
                      Message |-> [text |-> "degraded", arg |-> ""]]]
    [] h = "crit" ->
         [kind |-> "return",
          result |-> [Status |-> StatusCritical, Name |-> "", Resource |-> "db-1",
                      RequestDuration |-> 0, StatusCode |-> 418,
                      Message |-> [text |-> "connection refused", arg |-> ""]]]
    [] h = "above" ->
         [kind |-> "return",
          result |-> [Status |-> 4, Name |-> "", Resource |-> "",
                      RequestDuration |-> 0, StatusCode |-> 0, Message |-> NoMsg]]
    [] h = "below" ->
         [kind |-> "return",
          result |-> [Status |-> -1, Name |-> "", Resource |-> "",
                      RequestDuration |-> 0, StatusCode |-> 0, Message |-> NoMsg]]
    [] h = "panics" ->
         [kind |-> "panic", value |-> "nil pointer dereference"]
    [] h = "hangs" ->
         [kind |-> "hang"]

\* ------------------------------------------------------ descriptors (input)
Descriptor(name, conn, h, t) ==
  [Name |-> name, Connection |-> conn, HandlerFunc |-> h, Timeout |-> t]

\* HandlerFunc = "nil" is the nil function value.
\* Descriptors that appear in lists of every length.
DescriptorPool ==
  { Descriptor("db", "", "ok", 50),
    Descriptor("faulty", "", "panics", 50),
    Descriptor("stuck", "", "hangs", 50),
    Descriptor("api", "http://svc/health", "nil", 0) }

\* Descriptors that are checked on their own.
SoloPool ==
  { Descriptor("cache", "", "warnBare", 0),
    Descriptor("store", "http://svc/health", "crit", 50),
    Descriptor("odd", "", "above", 50),
    Descriptor("neg", "", "below", 50),
    Descriptor("files", "ftp://files/x", "nil", 50),
    Descriptor("bad", "://bad", "nil", 50),
    Descriptor("passwd", "file:///etc/passwd", "nil", 0),
    Descriptor("plain", "not a url at all", "nil", 50),
    Descriptor("ready", "https://svc/ready", "nil", 0),
    Descriptor("quick", "https://svc/ready", "nil", 50),
    Descriptor("", "", "nil", 0) }

\* -------------------------------------------------------------------- state
VARIABLES
  deps,        \* the descriptor list given to checkDeps
  ctxErr,      \* ctx.Err() of the caller's scope: "nil", "canceled", "deadline"
  mainpc,      \* checkDeps/Handler position: "loop", "returned", "responded"
  next,        \* index of the next descriptor the dispatch loop visits
  wg,          \* sync.WaitGroup counter
  mu,          \* sync.Mutex: 0 when free, else the index of the holding unit
  status,      \* the named return value `status` (running maximum)
  results,     \* the pre-sized `results` slice
  upc,         \* position of unit i
  ret,         \* value returned to unit i by its checker
  raise,       \* unit i's evaluation of `hsr.Status > status`
  texp,        \* timeoutCtx of unit i cancelled (timer fired or cancel() ran)
  chan,        \* resultChan of unit i (buffered)
  gpc,         \* position of the handler goroutine of unit i
  gval,        \* the result that goroutine is about to hand off
  late,        \* history: the scope had already ended when unit i's result was deposited
  seen,        \* history: whether the scope had ended when checkDeps was called (pre)
               \* and when unit i's result was deposited (handoff)
  calls,       \* number of times unit i's handler function has been called
  resp,        \* what client.Do returned to unit i
  gets,        \* number of GET requests unit i issued
  retStatus,   \* status returned by checkDeps
  retResults,  \* result list returned by checkDeps
  httpStatus,  \* response code written by Handler (0 before it answers)
  enum,        \* a caller of the Status enum: its inputs and what the calls returned
  other        \* the aggregator state of a second, concurrent call of checkDeps
               \* over the same list (pc "off" when there is none)

vars == <<deps, ctxErr, mainpc, next, wg, mu, status, results, upc, ret, raise,
          texp, chan, gpc, gval, late, seen, calls, resp, gets, retStatus, retResults,
          httpStatus, enum, other>>

aggVars == <<wg, mu, status, results, raise>>
execVars == <<texp, chan, gpc, gval, late, calls>>
urlVars == <<resp, gets>>
outVars == <<retStatus, retResults, httpStatus>>

N == Len(deps)
Units == 1..N

\* The units of the second call are numbered N+1..2N; unit N+j checks deps[j].
UnitsB == IF other.pc = "off" THEN {} ELSE (N + 1)..(2 * N)
DescOf(i) == deps[((i - 1) % N) + 1]

\* No second call.
OtherOff ==
  [pc |-> "off", next |-> 1, wg |-> 0, mu |-> 0, status |-> StatusNotSet,
   results |-> <<>>, retStatus |-> StatusNotSet, retResults |-> <<>>]

NoResp == [kind |-> "none", code |-> 0, elapsed |-> 0]

\* ------------------------------------------------------------ pure helpers
\* Variant: the timeout is used as given, zero included.
EffectiveTimeoutAsGiven(t) == t

\* heartbeat.go 152-154 and 229-231: zero means the default.
EffectiveTimeout(t) == IF t = 0 THEN DefaultTimeout ELSE t

\* Variant: the timeout result names the executor as its resource.
TimeoutResultWithResource(timeout) ==
  [ZeroResult EXCEPT !.Status = StatusCritical,
                     !.Resource = "custom handler",
                     !.Message = [text |-> "custom handler timeout after",
                                  arg |-> DurationString(timeout)]]

\* heartbeat.go 194-197
TimeoutResult(timeout) ==
  [ZeroResult EXCEPT !.Status = StatusCritical,
                     !.Message = [text |-> "custom handler timeout after",
                                  arg |-> DurationString(timeout)]]

\* Variant: the panic result is built without its Status field.
PanicResultNoStatus(r) ==
  [ZeroResult EXCEPT !.Message = [text |-> "panic in custom handler", arg |-> r]]

\* heartbeat.go 168-171
PanicResult(r) ==
  [ZeroResult EXCEPT !.Status = StatusCritical,
                     !.Message = [text |-> "panic in custom handler", arg |-> r]]

\* Variant: the name the check set is kept.
WithNameKept(hsr, d) == hsr

\* heartbeat.go 128
WithName(hsr, d) == [hsr EXCEPT !.Name = d.Name]

\* Variant: Resource is set to the descriptor's name unconditionally.
WithResourceOverwritten(hsr, d) == [hsr EXCEPT !.Resource = d.Name]

\* heartbeat.go 131-133
WithResource(hsr, d) ==
  IF hsr.Resource = "" THEN [hsr EXCEPT !.Resource = d.Name] ELSE hsr

\* hsr as it stands when the unit reaches mu.Lock()
Hsr(i) == WithResource(WithName(ret[i], DescOf(i)), DescOf(i))

\* heartbeat.go 137
Exceeds(s, cur) == s > cur

\* Variant: results are appended in order of arrival, not stored by index.
StoreAtFirstFree(res, index, hsr) ==
  LET free == { k \in DOMAIN res : res[k] = ZeroResult }
      k0 == CHOOSE k \in free : \A j \in free : k <= j
  IN [res EXCEPT ![k0] = hsr]

\* heartbeat.go 140
StoreAt(res, index, hsr) == [res EXCEPT ![index] = hsr]

\* Variant: no mutual exclusion around the compare-and-raise.
MutexFreeAlways(m) == TRUE

\* heartbeat.go 136: mu.Lock() proceeds only when the mutex is free
MutexFree(m) == m = 0

\* Variant: only OK and Warning count as operational.
HttpStatusNotSetUnavailable(s) ==
  IF s = StatusOK \/ s = StatusWarning THEN StatusOKHttp ELSE StatusServiceUnavailable

\* Variant: every status above OK is answered as unavailable.
HttpStatusWarningUnavailable(s) ==
  IF s > StatusOK THEN StatusServiceUnavailable ELSE StatusOKHttp

\* Variant: every status from Critical upwards is answered as unavailable.
HttpStatusAtLeastCritical(s) ==
  IF s >= StatusCritical THEN StatusServiceUnavailable ELSE StatusOKHttp

\* heartbeat.go 91-99
HttpStatus(s) ==
  CASE s = StatusCritical -> StatusServiceUnavailable
    [] s = StatusWarning -> StatusOKHttp
    [] s = StatusOK \/ s = StatusNotSet -> StatusOKHttp
    [] OTHER -> StatusOKHttp

\* Variant: timeoutCtx is derived from a fresh background scope, not from ctx.
DoneOwnTimerOnly(i) == texp[i]

\* timeoutCtx.Done() is closed: own timer or cancel(), or the parent scope ended
Done(i) == texp[i] \/ ctxErr # "nil"

\* Variant: resultChan is unbuffered and nobody receives.
CanSendUnbuffered(ch) == Len(ch) < 0

\* a send on resultChan can proceed
CanSend(ch) == Len(ch) < ChanCap

\* a receive from resultChan can proceed
CanRecv(ch) == Len(ch) > 0

\* Variant: the URL prober is chosen whenever Connection is set.
IsHandlerUnitNoConnection(i) ==
  DescOf(i).HandlerFunc # "nil" /\ DescOf(i).Connection = ""

\* heartbeat.go 119: the case d.HandlerFunc != nil
IsHandlerUnit(i) == DescOf(i).HandlerFunc # "nil"

\* -------------------------------------------------------------- Status enum
\* The generated enum code (String, ParseStatus) is not among the sources; it
\* is modelled from the specification, section "Severity".
Labels == {"NotSet", "OK", "Warning", "Critical"}

\* Texts handed to ParseStatus and ranks handed to String (input).
Texts ==
  {"NotSet", "OK", "Warning", "Critical", "Fatal", "ok", "CRITICAL", "OK ", "",
   "Status(5)", "1", "Unknown"}
MinRank == -2
MaxRank == 6
Ranks == MinRank..MaxRank

\* Variant: ranks without a label render as the empty string.
StatusStringLabelsOnly(x) ==
  CASE x = StatusNotSet -> "NotSet"
    [] x = StatusOK -> "OK"
    [] x = StatusWarning -> "Warning"
    [] x = StatusCritical -> "Critical"
    [] OTHER -> ""

\* toText: the four fixed labels, else "Status(<rank>)".
StatusString(x) ==
  CASE x = StatusNotSet -> "NotSet"
    [] x = StatusOK -> "OK"
    [] x = StatusWarning -> "Warning"
    [] x = StatusCritical -> "Critical"
    [] OTHER -> "Status(" \o ToString(x) \o ")"

\* Variant: the labels are matched without regard to case.
ParseStatusNoCase(name) ==
  CASE name \in {"NotSet", "notset"} -> [done |-> TRUE, status |-> StatusNotSet, failed |-> FALSE]
    [] name \in {"OK", "ok"} -> [done |-> TRUE, status |-> StatusOK, failed |-> FALSE]
    [] name \in {"Warning", "warning"} -> [done |-> TRUE, status |-> StatusWarning, failed |-> FALSE]
    [] name \in {"Critical", "critical", "CRITICAL"} ->
         [done |-> TRUE, status |-> StatusCritical, failed |-> FALSE]
    [] OTHER -> [done |-> TRUE, status |-> StatusNotSet, failed |-> TRUE]

\* parse: the rank of the label the text is exactly equal to; for any other
\* text an error, together with NotSet.
ParseStatus(name) ==
  CASE name = "NotSet" -> [done |-> TRUE, status |-> StatusNotSet, failed |-> FALSE]
    [] name = "OK" -> [done |-> TRUE, status |-> StatusOK, failed |-> FALSE]
    [] name = "Warning" -> [done |-> TRUE, status |-> StatusWarning, failed |-> FALSE]
    [] name = "Critical" -> [done |-> TRUE, status |-> StatusCritical, failed |-> FALSE]
    [] OTHER -> [done |-> TRUE, status |-> StatusNotSet, failed |-> TRUE]

NotCalled == [done |-> FALSE, status |-> StatusNotSet, failed |-> FALSE]

\* No call of the enum has been made.
EnumIdle ==
  [text |-> "", rank |-> StatusNotSet, parsed |-> NotCalled, shown |-> "-", back |-> NotCalled]

\* --------------------------------------------------------------------- Init
\* The descriptor lists checkDeps is called with: every list of up to MaxDeps
\* descriptors of the pool that names each descriptor once, every
\* single-descriptor list of the solo pool, and the mixed lists.
\* A list that pairs a URL descriptor failing validation with a handler
\* descriptor whose function returns a rank above Critical.
MixedLists ==
  { <<Descriptor("files", "ftp://files/x", "nil", 50), Descriptor("odd", "", "above", 50)>> }

DepLists ==
  { s \in UNION { [1..n -> DescriptorPool] : n \in 0..MaxDeps } :
      \A i, j \in DOMAIN s : i # j => s[i] # s[j] }
  \cup { <<d>> : d \in SoloPool }
  \cup MixedLists

Init ==
  /\ deps \in DepLists
  /\ ctxErr \in {"nil", "canceled"}
  /\ mainpc = "loop"
  /\ next = 1
  /\ wg = 0
  /\ mu = 0
  /\ status = StatusNotSet
  /\ results = [i \in 1..Len(deps) |-> ZeroResult]
  /\ upc = [i \in 1..Len(deps) |-> "idle"]
  /\ ret = [i \in 1..Len(deps) |-> ZeroResult]
  /\ raise = [i \in 1..Len(deps) |-> FALSE]
  /\ texp = [i \in 1..Len(deps) |-> FALSE]
  /\ chan = [i \in 1..Len(deps) |-> <<>>]
  /\ gpc = [i \in 1..Len(deps) |-> "none"]
  /\ gval = [i \in 1..Len(deps) |-> ZeroResult]
  /\ late = [i \in 1..Len(deps) |-> FALSE]
  /\ seen = [pre |-> ctxErr # "nil", handoff |-> [i \in 1..Len(deps) |-> FALSE]]
  /\ calls = [i \in 1..Len(deps) |-> 0]
  /\ resp = [i \in 1..Len(deps) |-> NoResp]
  /\ gets = [i \in 1..Len(deps) |-> 0]
  /\ retStatus = StatusNotSet
  /\ retResults = <<>>
  /\ httpStatus = 0
  /\ enum = EnumIdle
  /\ other = OtherOff

\* ------------------------------------------------------------- environment
\* The caller's scope is cancelled (client went away).
CancelScope ==
  /\ ctxErr = "nil"
  /\ mainpc = "loop"
  /\ ctxErr' = "canceled"
  /\ UNCHANGED <<deps, enum, other, seen, mainpc, next, upc, ret, aggVars, execVars, urlVars, outVars>>

\* The caller's scope passes its deadline.
DeadlineScope ==
  /\ ctxErr = "nil"
  /\ mainpc = "loop"
  /\ ctxErr' = "deadline"
  /\ UNCHANGED <<deps, enum, other, seen, mainpc, next, upc, ret, aggVars, execVars, urlVars, outVars>>

\* ---------------------------------------------------------------- checkDeps
\* heartbeat.go 112-114: one iteration of the dispatch loop
Dispatch ==
  /\ mainpc = "loop"
  /\ next <= N
  /\ wg' = wg + 1
  /\ upc' = [upc EXCEPT ![next] = "start"]
  /\ next' = next + 1
  /\ UNCHANGED <<deps, enum, other, seen, ctxErr, mainpc, mu, status, results, raise, ret,
                 execVars, urlVars, outVars>>

\* Variant: the unit enters the compare-and-raise without taking the lock.
LockWithoutMutex(i) ==
  /\ upc[i] = "lock"
  /\ raise' = [raise EXCEPT ![i] = Exceeds(Hsr(i).Status, status)]
  /\ upc' = [upc EXCEPT ![i] = "cs"]
  /\ UNCHANGED <<deps, enum, other, seen, ctxErr, mainpc, next, wg, mu, status, results,
                 ret, execVars, urlVars, outVars>>

\* heartbeat.go 136-137: mu.Lock() and the comparison
Lock(i) ==
  /\ upc[i] = "lock"
  /\ MutexFree(mu)
  /\ mu' = i
  /\ raise' = [raise EXCEPT ![i] = Exceeds(Hsr(i).Status, status)]
  /\ upc' = [upc EXCEPT ![i] = "cs"]
  /\ UNCHANGED <<deps, enum, other, seen, ctxErr, mainpc, next, wg, status, results, ret,
                 execVars, urlVars, outVars>>

\* heartbeat.go 138-141 and the deferred wg.Done()
Unlock(i) ==
  /\ upc[i] = "cs"
  /\ status' = IF raise[i] THEN Hsr(i).Status ELSE status
  /\ results' = StoreAt(results, i, Hsr(i))
  /\ mu' = 0
  /\ wg' = wg - 1
  /\ upc' = [upc EXCEPT ![i] = "done"]
  /\ UNCHANGED <<deps, enum, other, seen, ctxErr, mainpc, next, raise, ret, execVars, urlVars, outVars>>

\* Variant: checkDeps returns after the dispatch loop, without wg.Wait().
ReturnWithoutWait ==
  /\ mainpc = "loop"
  /\ next > N
  /\ retStatus' = status
  /\ retResults' = results
  /\ mainpc' = "returned"
  /\ UNCHANGED <<deps, enum, other, seen, ctxErr, next, aggVars, upc, ret, execVars,
                 urlVars, httpStatus>>

\* Variant: checkDeps stops waiting as soon as the running maximum is Critical.
ReturnOnCritical ==
  /\ mainpc = "loop"
  /\ \/ next > N /\ wg = 0
     \/ status = StatusCritical
  /\ retStatus' = status
  /\ retResults' = results
  /\ mainpc' = "returned"
  /\ UNCHANGED <<deps, enum, other, seen, ctxErr, next, upc, ret, aggVars, execVars, urlVars, httpStatus>>

\* heartbeat.go 145-146: wg.Wait() returns and checkDeps returns
Return ==
  /\ mainpc = "loop"
  /\ next > N
  /\ wg = 0
  /\ retStatus' = status
  /\ retResults' = results
  /\ mainpc' = "returned"
  /\ UNCHANGED <<deps, enum, other, seen, ctxErr, next, upc, ret, aggVars, execVars, urlVars, httpStatus>>

\* heartbeat.go 85-100: Handler maps the overall status and answers
Respond ==
  /\ mainpc = "returned"
  /\ httpStatus' = HttpStatus(retStatus)
  /\ mainpc' = "responded"
  /\ UNCHANGED <<deps, enum, other, seen, ctxErr, next, upc, ret, aggVars, execVars, urlVars,
                 retStatus, retResults>>


\* ------------------------------------------------ executeHandlerWithTimeout
\* Variant: the executor looks at the scope first and does not start the
\* handler when the scope has already ended.
ExecStartUnlessDone(i) ==
  /\ upc[i] = "start"
  /\ IsHandlerUnit(i)
  /\ IF ctxErr # "nil"
     THEN /\ ret' = [ret EXCEPT ![i] = TimeoutResult(EffectiveTimeout(DescOf(i).Timeout))]
          /\ upc' = [upc EXCEPT ![i] = "lock"]
          /\ UNCHANGED <<gpc, calls>>
     ELSE /\ gpc' = [gpc EXCEPT ![i] = "running"]
          /\ calls' = [calls EXCEPT ![i] = @ + 1]
          /\ upc' = [upc EXCEPT ![i] = "select"]
          /\ UNCHANGED ret
  /\ UNCHANGED <<deps, enum, other, seen, ctxErr, mainpc, next, aggVars, texp, chan, gval,
                 late, urlVars, outVars>>

\* Variant: the unit takes the aggregation lock before it runs its check.
ExecStartLocked(i) ==
  /\ upc[i] = "start"
  /\ IsHandlerUnit(i)
  /\ MutexFree(mu)
  /\ mu' = i
  /\ gpc' = [gpc EXCEPT ![i] = "running"]
  /\ calls' = [calls EXCEPT ![i] = @ + 1]
  /\ upc' = [upc EXCEPT ![i] = "select"]
  /\ UNCHANGED <<deps, enum, other, seen, ctxErr, mainpc, next, ret, wg, status, results,
                 raise, texp, chan, gval, late, urlVars, outVars>>

\* heartbeat.go 120-122 and 150-180: the unit enters the executor, which
\* derives timeoutCtx, makes resultChan and starts the goroutine that calls
\* handler().
ExecStart(i) ==
  /\ upc[i] = "start"
  /\ IsHandlerUnit(i)
  /\ gpc' = [gpc EXCEPT ![i] = "running"]
  /\ calls' = [calls EXCEPT ![i] = @ + 1]
  /\ upc' = [upc EXCEPT ![i] = "select"]
  /\ UNCHANGED <<deps, enum, other, seen, ctxErr, mainpc, next, ret, aggVars, texp, chan, gval, late,
                 urlVars, outVars>>

\* heartbeat.go 157: the timer of timeoutCtx fires
Expire(i) ==
  /\ upc[i] = "select"
  /\ ~texp[i]
  /\ texp' = [texp EXCEPT ![i] = TRUE]
  /\ UNCHANGED <<deps, enum, other, seen, ctxErr, mainpc, next, upc, ret, aggVars, chan, gpc, gval, late,
                 calls, urlVars, outVars>>

\* Variant: the deferred function recovers but hands off an empty result.
OutcomeSwallowed(h) ==
  IF Behaviour(h).kind = "panic" THEN ZeroResult ELSE Behaviour(h).result

\* The result the goroutine has in hand when handler() ends: what the function
\* returned (heartbeat.go 180) or, after a panic, the recovered panicResult
\* (heartbeat.go 165-171).
Outcome(h) ==
  IF Behaviour(h).kind = "panic"
  THEN PanicResult(Behaviour(h).value)
  ELSE Behaviour(h).result

\* handler() of unit i comes to an end (it returns or panics)
Ends(i) ==
  /\ gpc[i] = "running"
  /\ Behaviour(DescOf(i).HandlerFunc).kind \in {"return", "panic"}

\* Variant: the goroutine also writes its result into the unit's result slot.
DepositAndStore(i) ==
  /\ Ends(i)
  /\ CanSend(chan[i])
  /\ gval' = [gval EXCEPT ![i] = Outcome(DescOf(i).HandlerFunc)]
  /\ chan' = [chan EXCEPT ![i] = Append(@, Outcome(DescOf(i).HandlerFunc))]
  /\ gpc' = [gpc EXCEPT ![i] = "deposited"]
  /\ late' = [late EXCEPT ![i] = Done(i)]
  /\ seen' = [seen EXCEPT !.handoff[i] = ctxErr # "nil"]
  /\ results' = IF i \in DOMAIN results
                THEN StoreAt(results, i, Outcome(DescOf(i).HandlerFunc))
                ELSE results
  /\ UNCHANGED <<deps, enum, other, ctxErr, mainpc, next, upc, ret, wg, mu, status, raise,
                 texp, calls, urlVars, outVars>>

\* heartbeat.go 172-173 and 181-182: handler() ends and the goroutine's select
\* takes its send case
Deposit(i) ==
  /\ Ends(i)
  /\ CanSend(chan[i])
  /\ gval' = [gval EXCEPT ![i] = Outcome(DescOf(i).HandlerFunc)]
  /\ chan' = [chan EXCEPT ![i] = Append(@, Outcome(DescOf(i).HandlerFunc))]
  /\ gpc' = [gpc EXCEPT ![i] = "deposited"]
  /\ late' = [late EXCEPT ![i] = Done(i)]
  /\ seen' = [seen EXCEPT !.handoff[i] = ctxErr # "nil"]
  /\ UNCHANGED <<deps, enum, other, ctxErr, mainpc, next, upc, ret, aggVars, texp, calls,
                 urlVars, outVars>>

\* Variant: the goroutine may drop its result whether or not the bounded scope
\* is done (a default case in place of the Done case).
DiscardAnytime(i) ==
  /\ Ends(i)
  /\ gval' = [gval EXCEPT ![i] = Outcome(DescOf(i).HandlerFunc)]
  /\ gpc' = [gpc EXCEPT ![i] = "discarded"]
  /\ UNCHANGED <<deps, enum, other, seen, ctxErr, mainpc, next, upc, ret, aggVars, texp, chan,
                 late, calls, urlVars, outVars>>

\* heartbeat.go 174-176 and 183-185: handler() ends and the goroutine's select
\* takes its Done case
Discard(i) ==
  /\ Ends(i)
  /\ Done(i)
  /\ gval' = [gval EXCEPT ![i] = Outcome(DescOf(i).HandlerFunc)]
  /\ gpc' = [gpc EXCEPT ![i] = "discarded"]
  /\ UNCHANGED <<deps, enum, other, seen, ctxErr, mainpc, next, upc, ret, aggVars, texp, chan, late, calls,
                 urlVars, outVars>>

\* heartbeat.go 190-191: the receive case of the executor's select; the
\* deferred cancel() runs on return
ReceiveResult(i) ==
  /\ upc[i] = "select"
  /\ CanRecv(chan[i])
  /\ ret' = [ret EXCEPT ![i] = Head(chan[i])]
  /\ chan' = [chan EXCEPT ![i] = Tail(@)]
  /\ texp' = [texp EXCEPT ![i] = TRUE]
  /\ upc' = [upc EXCEPT ![i] = "lock"]
  /\ UNCHANGED <<deps, enum, other, seen, ctxErr, mainpc, next, aggVars, gpc, gval, late, calls, urlVars,
                 outVars>>

\* Variant: the executor waits on resultChan alone (`result := <-resultChan`),
\* its select has no Done case.
ReceiveDoneAbsent(i) ==
  /\ upc[i] = "select"
  /\ FALSE
  /\ UNCHANGED vars

\* heartbeat.go 192-197: the Done case of the executor's select
ReceiveDone(i) ==
  /\ upc[i] = "select"
  /\ Done(i)
  /\ ret' = [ret EXCEPT ![i] = TimeoutResult(EffectiveTimeout(DescOf(i).Timeout))]
  /\ texp' = [texp EXCEPT ![i] = TRUE]
  /\ upc' = [upc EXCEPT ![i] = "lock"]
  /\ UNCHANGED <<deps, enum, other, seen, ctxErr, mainpc, next, aggVars, chan, gpc, gval, late, calls,
                 urlVars, outVars>>

\* ----------------------------------------------------------------- checkURL
\* url.Parse on the connection strings of the pool: the parse error, if any,
\* and the scheme.
ParseURL(u) ==
  CASE u = "http://svc/health" -> [err |-> "", Scheme |-> "http"]
    [] u = "https://svc/ready" -> [err |-> "", Scheme |-> "https"]
    [] u = "ftp://files/x" -> [err |-> "", Scheme |-> "ftp"]
    [] u = "file:///etc/passwd" -> [err |-> "", Scheme |-> "file"]
    [] u = "" -> [err |-> "", Scheme |-> ""]
    [] u = "not a url at all" -> [err |-> "", Scheme |-> ""]
    [] u = "://bad" -> [err |-> "parse \"://bad\": missing protocol scheme", Scheme |-> ""]

\* Variant: a blocklist of the file scheme in place of the allowlist.
SchemeNotFile(scheme) == scheme # "file"

\* heartbeat.go 216
SchemeAllowed(scheme) == scheme = "http" \/ scheme = "https"

\* heartbeat.go 207-213
InvalidURLResult(urlStr, err) ==
  [ZeroResult EXCEPT !.Status = StatusCritical,
                     !.Message = [text |-> "invalid URL", arg |-> err],
                     !.Resource = urlStr,
                     !.Name = urlStr]

\* heartbeat.go 216-222
UnsupportedSchemeResult(urlStr, scheme) ==
  [ZeroResult EXCEPT !.Status = StatusCritical,
                     !.Message = [text |-> "unsupported URL scheme", arg |-> scheme],
                     !.Resource = urlStr,
                     !.Name = urlStr]

\* Response codes and latencies an unrestricted endpoint may answer with.
Codes == {100, 199, 200, 299, 300, 399, 400, 499, 500, 503}
Latencies == {20, 3000, 3001, 10001}

\* What the endpoint behind a URL of the pool can do to a request (input):
\* the responses it may send, and whether the connection may fail.
Endpoint(u) ==
  CASE u = "http://svc/health" ->
         [responses |-> { [code |-> 200, elapsed |-> 20], [code |-> 500, elapsed |-> 20] },
          mayFail |-> TRUE]
    [] u = "https://svc/ready" ->
         [responses |-> { [code |-> c, elapsed |-> e] : c \in Codes, e \in Latencies },
          mayFail |-> TRUE]
    [] OTHER -> [responses |-> {}, mayFail |-> TRUE]

\* Variant: the request is not bound to the scope (http.NewRequest), so
\* client.Do never returns the scope's error.
DoOutcomesUnbound(urlStr, timeout, ctxE) ==
  { [kind |-> "response", code |-> r.code, elapsed |-> r.elapsed] :
       r \in { x \in Endpoint(urlStr).responses : x.elapsed <= timeout } }
  \cup (IF Endpoint(urlStr).mayFail
        THEN { [kind |-> "transport", code |-> 0, elapsed |-> 5] } ELSE {})
  \cup (IF \E x \in Endpoint(urlStr).responses : x.elapsed > timeout
        THEN { [kind |-> "clienttimeout", code |-> 0, elapsed |-> timeout] } ELSE {})

\* What client.Do can return (heartbeat.go 234-248) for a GET of urlStr bound
\* to a scope with error ctxE and a client ceiling of timeout: the scope's
\* error if the scope has ended, else a response of the endpoint within the
\* ceiling, a transport error, or the client's own timeout when a response
\* would take longer than the ceiling.
DoOutcomes(urlStr, timeout, ctxE) ==
  IF ctxE # "nil"
  THEN { [kind |-> "scope", code |-> 0, elapsed |-> 1] }
  ELSE { [kind |-> "response", code |-> r.code, elapsed |-> r.elapsed] :
            r \in { x \in Endpoint(urlStr).responses : x.elapsed <= timeout } }
       \cup (IF Endpoint(urlStr).mayFail
             THEN { [kind |-> "transport", code |-> 0, elapsed |-> 5] } ELSE {})
       \cup (IF \E x \in Endpoint(urlStr).responses : x.elapsed > timeout
             THEN { [kind |-> "clienttimeout", code |-> 0, elapsed |-> timeout] } ELSE {})

CtxErrString(e) ==
  IF e = "canceled" THEN "context canceled" ELSE "context deadline exceeded"

TransportErrString(kind) ==
  CASE kind = "scope" -> "context canceled"
    [] kind = "clienttimeout" -> "context deadline exceeded (Client.Timeout exceeded while awaiting headers)"
    [] OTHER -> "dial tcp: connection refused"

\* Variant: the switch has no default case; a code below 200 leaves the
\* status and the message as they were set before the request.
ClassifyNoDefault(code, elapsed) ==
  CASE code >= 500 -> [Status |-> StatusCritical,
                       Message |-> [text |-> "server error", arg |-> ToString(code)]]
    [] code < 500 /\ code >= 400 ->
                      [Status |-> StatusCritical,
                       Message |-> [text |-> "client error", arg |-> ToString(code)]]
    [] code < 400 /\ code >= 300 ->
                      [Status |-> StatusWarning,
                       Message |-> [text |-> "redirect", arg |-> ToString(code)]]
    [] code < 300 /\ code >= 200 ->
                      IF elapsed > SlowThreshold
                      THEN [Status |-> StatusWarning,
                            Message |-> [text |-> "slow response",
                                         arg |-> DurationString(elapsed)]]
                      ELSE [Status |-> StatusOK, Message |-> [text |-> "ok", arg |-> ""]]
    [] OTHER -> [Status |-> StatusNotSet, Message |-> [text |-> "", arg |-> ""]]

\* Variant: the first case compares with > in place of >=.
ClassifyServerAbove(code, elapsed) ==
  CASE code > 500 -> [Status |-> StatusCritical,
                      Message |-> [text |-> "server error", arg |-> ToString(code)]]
    [] code <= 500 /\ code >= 400 ->
                      [Status |-> StatusCritical,
                       Message |-> [text |-> "client error", arg |-> ToString(code)]]
    [] code < 400 /\ code >= 300 ->
                      [Status |-> StatusWarning,
                       Message |-> [text |-> "redirect", arg |-> ToString(code)]]
    [] code < 300 /\ code >= 200 ->
                      IF elapsed > SlowThreshold
                      THEN [Status |-> StatusWarning,
                            Message |-> [text |-> "slow response",
                                         arg |-> DurationString(elapsed)]]
                      ELSE [Status |-> StatusOK, Message |-> [text |-> "ok", arg |-> ""]]
    [] OTHER -> [Status |-> StatusCritical,
                 Message |-> [text |-> "unexpected status", arg |-> ToString(code)]]

\* Variant: a 2xx response is slow from the threshold on (>= in place of >).
ClassifySlowAtThreshold(code, elapsed) ==
  CASE code >= 500 -> [Status |-> StatusCritical,
                       Message |-> [text |-> "server error", arg |-> ToString(code)]]
    [] code < 500 /\ code >= 400 ->
                      [Status |-> StatusCritical,
                       Message |-> [text |-> "client error", arg |-> ToString(code)]]
    [] code < 400 /\ code >= 300 ->
                      [Status |-> StatusWarning,
                       Message |-> [text |-> "redirect", arg |-> ToString(code)]]
    [] code < 300 /\ code >= 200 ->
                      IF elapsed >= SlowThreshold
                      THEN [Status |-> StatusWarning,
                            Message |-> [text |-> "slow response",
                                         arg |-> DurationString(elapsed)]]
                      ELSE [Status |-> StatusOK, Message |-> [text |-> "ok", arg |-> ""]]
    [] OTHER -> [Status |-> StatusCritical,
                 Message |-> [text |-> "unexpected status", arg |-> ToString(code)]]

\* heartbeat.go 265-289: the classification of a response
Classify(code, elapsed) ==
  CASE code >= 500 -> [Status |-> StatusCritical,
                       Message |-> [text |-> "server error", arg |-> ToString(code)]]
    [] code < 500 /\ code >= 400 ->
                      [Status |-> StatusCritical,
                       Message |-> [text |-> "client error", arg |-> ToString(code)]]
    [] code < 400 /\ code >= 300 ->
                      [Status |-> StatusWarning,
                       Message |-> [text |-> "redirect", arg |-> ToString(code)]]
    [] code < 300 /\ code >= 200 ->
                      IF elapsed > SlowThreshold
                      THEN [Status |-> StatusWarning,
                            Message |-> [text |-> "slow response",
                                         arg |-> DurationString(elapsed)]]
                      ELSE [Status |-> StatusOK, Message |-> [text |-> "ok", arg |-> ""]]
    [] OTHER -> [Status |-> StatusCritical,
                 Message |-> [text |-> "unexpected status", arg |-> ToString(code)]]

\* Variant: every failure of client.Do is reported as a transport failure,
\* the scope's error is not consulted.
URLResultNoScopeCheck(urlStr, r, ctxE) ==
  LET base == [ZeroResult EXCEPT !.Name = urlStr, !.Resource = urlStr,
                                 !.RequestDuration = r.elapsed]
  IN IF r.kind # "response"
     THEN [base EXCEPT !.Status = StatusCritical,
                       !.Message = [text |-> "HTTP request failed",
                                    arg |-> TransportErrString(r.kind)]]
     ELSE [base EXCEPT !.StatusCode = r.code,
                       !.Status = Classify(r.code, r.elapsed).Status,
                       !.Message = Classify(r.code, r.elapsed).Message]

\* heartbeat.go 224-226 and 249-291: the result built from what client.Do
\* returned; ctxE is ctx.Err() as read at line 254
URLResult(urlStr, r, ctxE) ==
  LET base == [ZeroResult EXCEPT !.Name = urlStr, !.Resource = urlStr,
                                 !.RequestDuration = r.elapsed]
  IN IF r.kind # "response"
     THEN [base EXCEPT !.Status = StatusCritical,
                       !.Message = IF ctxE # "nil"
                                   THEN [text |-> "request cancelled",
                                         arg |-> CtxErrString(ctxE)]
                                   ELSE [text |-> "HTTP request failed",
                                         arg |-> TransportErrString(r.kind)]]
     ELSE [base EXCEPT !.StatusCode = r.code,
                       !.Status = Classify(r.code, r.elapsed).Status,
                       !.Message = Classify(r.code, r.elapsed).Message]

\* heartbeat.go 123-124 and 201-244: the unit enters checkURL; an invalid URL
\* or a disallowed scheme returns at once, otherwise the GET is issued
URLStart(i) ==
  /\ upc[i] = "start"
  /\ ~IsHandlerUnit(i)
  /\ LET u == DescOf(i).Connection
         p == ParseURL(u)
     IN IF p.err # ""
        THEN /\ ret' = [ret EXCEPT ![i] = InvalidURLResult(u, p.err)]
             /\ upc' = [upc EXCEPT ![i] = "lock"]
             /\ UNCHANGED gets
        ELSE IF ~SchemeAllowed(p.Scheme)
        THEN /\ ret' = [ret EXCEPT ![i] = UnsupportedSchemeResult(u, p.Scheme)]
             /\ upc' = [upc EXCEPT ![i] = "lock"]
             /\ UNCHANGED gets
        ELSE /\ upc' = [upc EXCEPT ![i] = "do"]
             /\ gets' = [gets EXCEPT ![i] = @ + 1]
             /\ UNCHANGED ret
  /\ UNCHANGED <<deps, enum, other, seen, ctxErr, mainpc, next, aggVars, execVars, resp, outVars>>

\* heartbeat.go 247-249: client.Do returns
DoReturns(i) ==
  /\ upc[i] = "do"
  /\ \E r \in DoOutcomes(DescOf(i).Connection, EffectiveTimeout(DescOf(i).Timeout), ctxErr) :
        resp' = [resp EXCEPT ![i] = r]
  /\ upc' = [upc EXCEPT ![i] = "classify"]
  /\ UNCHANGED <<deps, enum, other, seen, ctxErr, mainpc, next, ret, aggVars, execVars, gets, outVars>>

\* Variant: a request that failed is issued once more before the result is
\* built.
URLReturnRetry(i) ==
  /\ upc[i] = "classify"
  /\ IF resp[i].kind # "response" /\ gets[i] < 2
     THEN /\ upc' = [upc EXCEPT ![i] = "do"]
          /\ gets' = [gets EXCEPT ![i] = @ + 1]
          /\ UNCHANGED ret
     ELSE /\ ret' = [ret EXCEPT ![i] = URLResult(DescOf(i).Connection, resp[i], ctxErr)]
          /\ upc' = [upc EXCEPT ![i] = "lock"]
          /\ UNCHANGED gets
  /\ UNCHANGED <<deps, enum, other, seen, ctxErr, mainpc, next, aggVars, execVars, resp,
                 outVars>>

\* heartbeat.go 251-291: checkURL builds and returns its result
URLReturn(i) ==
  /\ upc[i] = "classify"
  /\ ret' = [ret EXCEPT ![i] = URLResult(DescOf(i).Connection, resp[i], ctxErr)]
  /\ upc' = [upc EXCEPT ![i] = "lock"]
  /\ UNCHANGED <<deps, enum, other, seen, ctxErr, mainpc, next, aggVars, execVars, urlVars, outVars>>

\* --------------------------------------------------------------------- Next
Next ==
  \/ CancelScope
  \/ DeadlineScope
  \/ Dispatch
  \/ Return
  \/ Respond
  \/ \E i \in Units : ExecStart(i)
  \/ \E i \in Units : Expire(i)
  \/ \E i \in Units : Deposit(i)
  \/ \E i \in Units : Discard(i)
  \/ \E i \in Units : ReceiveResult(i)
  \/ \E i \in Units : ReceiveDone(i)
  \/ \E i \in Units : URLStart(i)
  \/ \E i \in Units : DoReturns(i)
  \/ \E i \in Units : URLReturn(i)
  \/ \E i \in Units : Lock(i)
  \/ \E i \in Units : Unlock(i)

Spec == Init /\ [][Next]_vars


\* A single check on its own: the descriptor list has at most one entry.
\* The steps the program itself takes: every step but those of the caller's
\* scope.
ProgramStep ==
  \/ Dispatch
  \/ Return
  \/ Respond
  \/ \E i \in Units : ExecStart(i)
  \/ \E i \in Units : Expire(i)
  \/ \E i \in Units : Deposit(i)
  \/ \E i \in Units : Discard(i)
  \/ \E i \in Units : ReceiveResult(i)
  \/ \E i \in Units : ReceiveDone(i)
  \/ \E i \in Units : URLStart(i)
  \/ \E i \in Units : DoReturns(i)
  \/ \E i \in Units : URLReturn(i)
  \/ \E i \in Units : Lock(i)
  \/ \E i \in Units : Unlock(i)

\* The Go scheduler runs every runnable goroutine, every timer fires and
\* client.Do returns within the client's ceiling: the program does not stop
\* while one of its steps is possible.
LiveSpec == Init /\ [][Next]_vars /\ WF_vars(ProgramStep)

InitSolo == Init /\ Len(deps) <= 1

\* The Go scheduler eventually runs a goroutine that can proceed: a unit whose
\* executor select has a ready case takes it.
FairSpec ==
  /\ InitSolo
  /\ [][Next]_vars
  /\ WF_vars(\E i \in Units : ReceiveResult(i) \/ ReceiveDone(i))

\* ------------------------------------------------- the Status enum's caller
\* A caller of the enum alone: no checkDeps call is under way, the text and
\* the rank are arbitrary.
EnumInit ==
  /\ deps = <<>>
  /\ ctxErr = "nil"
  /\ mainpc = "loop"
  /\ next = 1
  /\ wg = 0
  /\ mu = 0
  /\ status = StatusNotSet
  /\ results = <<>>
  /\ upc = <<>>
  /\ ret = <<>>
  /\ raise = <<>>
  /\ texp = <<>>
  /\ chan = <<>>
  /\ gpc = <<>>
  /\ gval = <<>>
  /\ late = <<>>
  /\ seen = [pre |-> FALSE, handoff |-> <<>>]
  /\ calls = <<>>
  /\ resp = <<>>
  /\ gets = <<>>
  /\ retStatus = StatusNotSet
  /\ retResults = <<>>
  /\ httpStatus = 0
  /\ other = OtherOff
  /\ \E t \in Texts, r \in Ranks : enum = [EnumIdle EXCEPT !.text = t, !.rank = r]

progVars ==
  <<deps, ctxErr, mainpc, next, aggVars, upc, ret, execVars, seen, urlVars, outVars, other>>

\* ParseStatus(text)
CallParse ==
  /\ ~enum.parsed.done
  /\ enum' = [enum EXCEPT !.parsed = ParseStatus(enum.text)]
  /\ UNCHANGED progVars

\* Status(rank).String()
CallString ==
  /\ enum.shown = "-"
  /\ enum' = [enum EXCEPT !.shown = StatusString(enum.rank)]
  /\ UNCHANGED progVars

\* ParseStatus(Status(rank).String())
CallParseBack ==
  /\ enum.shown # "-"
  /\ ~enum.back.done
  /\ enum' = [enum EXCEPT !.back = ParseStatus(enum.shown)]
  /\ UNCHANGED progVars

EnumNext == CallParse \/ CallString \/ CallParseBack

EnumSpec == EnumInit /\ [][EnumNext]_vars

\* ------------------------------------------------- a second call of checkDeps
\* Handler serves requests concurrently, so checkDeps can be running twice.
\* Everything checkDeps declares (heartbeat.go 105-110: mu, wg, status,
\* results) is local to the call; the second call has its own copy in `other`
\* and its own units, which run the same checkers as those of the first.

\* The lists given to both calls.
TwoLists ==
  { <<d>> : d \in DescriptorPool } \cup
  { <<Descriptor("db", "", "ok", 50), Descriptor("files", "ftp://files/x", "nil", 50)>> }

TwoInit ==
  /\ deps \in TwoLists
  /\ ctxErr \in {"nil", "canceled"}
  /\ mainpc = "loop"
  /\ next = 1
  /\ wg = 0
  /\ mu = 0
  /\ status = StatusNotSet
  /\ results = [i \in 1..Len(deps) |-> ZeroResult]
  /\ upc = [i \in 1..(2 * Len(deps)) |-> "idle"]
  /\ ret = [i \in 1..(2 * Len(deps)) |-> ZeroResult]
  /\ raise = [i \in 1..(2 * Len(deps)) |-> FALSE]
  /\ texp = [i \in 1..(2 * Len(deps)) |-> FALSE]
  /\ chan = [i \in 1..(2 * Len(deps)) |-> <<>>]
  /\ gpc = [i \in 1..(2 * Len(deps)) |-> "none"]
  /\ gval = [i \in 1..(2 * Len(deps)) |-> ZeroResult]
  /\ late = [i \in 1..(2 * Len(deps)) |-> FALSE]
  /\ seen = [pre |-> ctxErr # "nil", handoff |-> [i \in 1..(2 * Len(deps)) |-> FALSE]]
  /\ calls = [i \in 1..(2 * Len(deps)) |-> 0]
  /\ resp = [i \in 1..(2 * Len(deps)) |-> NoResp]
  /\ gets = [i \in 1..(2 * Len(deps)) |-> 0]
  /\ retStatus = StatusNotSet
  /\ retResults = <<>>
  /\ httpStatus = 0
  /\ enum = EnumIdle
  /\ other = [OtherOff EXCEPT !.pc = "loop",
                              !.results = [j \in 1..Len(deps) |-> ZeroResult]]

\* heartbeat.go 112-114 in the second call
DispatchB ==
  /\ other.pc = "loop"
  /\ other.next <= N
  /\ other' = [other EXCEPT !.wg = @ + 1, !.next = @ + 1]
  /\ upc' = [upc EXCEPT ![N + other.next] = "start"]
  /\ UNCHANGED <<deps, enum, seen, ctxErr, mainpc, next, aggVars, ret, execVars,
                 urlVars, outVars>>

\* Variant: the running maximum is one variable shared by all calls.
LockBShared(i) ==
  /\ upc[i] = "lock"
  /\ MutexFree(other.mu)
  /\ other' = [other EXCEPT !.mu = i]
  /\ raise' = [raise EXCEPT ![i] = Exceeds(Hsr(i).Status, status)]
  /\ upc' = [upc EXCEPT ![i] = "cs"]
  /\ UNCHANGED <<deps, enum, seen, ctxErr, mainpc, next, wg, mu, status, results, ret,
                 execVars, urlVars, outVars>>

\* heartbeat.go 136-137 in the second call
LockB(i) ==
  /\ upc[i] = "lock"
  /\ MutexFree(other.mu)
  /\ other' = [other EXCEPT !.mu = i]
  /\ raise' = [raise EXCEPT ![i] = Exceeds(Hsr(i).Status, other.status)]
  /\ upc' = [upc EXCEPT ![i] = "cs"]
  /\ UNCHANGED <<deps, enum, seen, ctxErr, mainpc, next, wg, mu, status, results, ret,
                 execVars, urlVars, outVars>>

\* heartbeat.go 138-141 and the deferred wg.Done() in the second call
UnlockB(i) ==
  /\ upc[i] = "cs"
  /\ other' = [other EXCEPT !.status = IF raise[i] THEN Hsr(i).Status ELSE @,
                            !.results = StoreAt(@, i - N, Hsr(i)),
                            !.mu = 0,
                            !.wg = @ - 1]
  /\ upc' = [upc EXCEPT ![i] = "done"]
  /\ UNCHANGED <<deps, enum, seen, ctxErr, mainpc, next, aggVars, ret, execVars,
                 urlVars, outVars>>

\* heartbeat.go 145-146 in the second call
ReturnB ==
  /\ other.pc = "loop"
  /\ other.next > N
  /\ other.wg = 0
  /\ other' = [other EXCEPT !.retStatus = other.status,
                            !.retResults = other.results,
                            !.pc = "returned"]
  /\ UNCHANGED <<deps, enum, seen, ctxErr, mainpc, next, aggVars, upc, ret, execVars,
                 urlVars, outVars>>

TwoNext ==
  \/ Next
  \/ DispatchB
  \/ ReturnB
  \/ \E i \in UnitsB : ExecStart(i)
  \/ \E i \in UnitsB : Expire(i)
  \/ \E i \in UnitsB : Deposit(i)
  \/ \E i \in UnitsB : Discard(i)
  \/ \E i \in UnitsB : ReceiveResult(i)
  \/ \E i \in UnitsB : ReceiveDone(i)
  \/ \E i \in UnitsB : URLStart(i)
  \/ \E i \in UnitsB : DoReturns(i)
  \/ \E i \in UnitsB : URLReturn(i)
  \/ \E i \in UnitsB : LockB(i)
  \/ \E i \in UnitsB : UnlockB(i)

TwoSpec == TwoInit /\ [][TwoNext]_vars


\* =================================================================== claims
MaxOf(S) == CHOOSE m \in S : \A x \in S : x <= m

Returned == mainpc \in {"returned", "responded"}

\* the executor or prober of unit i has returned
PastCheck(i) == upc[i] \in {"lock", "cs", "done"}

\* what the handler function of unit i does; "none" for a nil function
KindOf(i) ==
  IF deps[i].HandlerFunc = "nil" THEN "none" ELSE Behaviour(deps[i].HandlerFunc).kind

TimeoutText == "custom handler timeout after"
PanicText == "panic in custom handler"

\* C1: checkDeps returns one result per descriptor, and results[i].Name is
\* deps[i].Name for every i, whatever the completion order of the units.
C1_OrderPreserved ==
  Returned =>
    /\ Len(retResults) = Len(deps)
    /\ \A i \in Units : retResults[i].Name = deps[i].Name

\* Unit 2 stored its Critical result before unit 1 compared its OK result.
C1_Witness ==
  /\ Returned
  /\ N = 2
  /\ deps[1].Name # deps[2].Name
  /\ retResults[1].Status = StatusOK
  /\ retResults[2].Status = StatusCritical
  /\ ~raise[1]
  /\ retResults[1].Name = deps[1].Name
  /\ retResults[2].Name = deps[2].Name

C3_EmptyList ==
  N = 0 =>
    /\ wg = 0
    /\ next = 1
    /\ mainpc = "loop" => next > N
    /\ Returned => (retStatus = StatusNotSet /\ retResults = <<>>)
    /\ mainpc = "responded" => httpStatus = 200

C3_Witness ==
  /\ N = 0
  /\ mainpc = "responded"
  /\ retStatus = StatusNotSet
  /\ httpStatus = 200

\* C4: Handler answers 503 for Critical and 200 for OK, Warning and NotSet.
C4_HttpMapping ==
  mainpc = "responded" =>
    /\ retStatus = StatusCritical => httpStatus = 503
    /\ retStatus \in {StatusOK, StatusWarning, StatusNotSet} => httpStatus = 200

\* A Warning-only aggregate answered with 200.
C4_Witness ==
  /\ mainpc = "responded"
  /\ retStatus = StatusWarning
  /\ httpStatus = 200

\* C5: when the bounded scope had ended before the handler's result was
\* deposited, the executor returns the timeout result naming the timeout used.
C5_LateResultNeverReturned ==
  \A i \in Units :
    (IsHandlerUnit(i) /\ PastCheck(i) /\ gpc[i] = "deposited" /\ late[i]) =>
      /\ ret[i].Status = StatusCritical
      /\ ret[i].Message =
           [text |-> TimeoutText,
            arg |-> DurationString(IF deps[i].Timeout = 0 THEN 10000 ELSE deps[i].Timeout)]

\* C6: when the handler's result was deposited before the bounded scope ended,
\* the executor returns exactly that result.
C6_EarlyResultReturned ==
  \A i \in Units :
    (IsHandlerUnit(i) /\ PastCheck(i) /\ gpc[i] = "deposited" /\ ~late[i]) =>
      ret[i] = gval[i]

C8_HandoffNeverBlocks ==
  \A i \in Units :
    (IsHandlerUnit(i) /\ gpc[i] = "running") => CanSend(chan[i])

\* The result was deposited after the scope had ended, the executor returned
\* the timeout result, and the value stays in the buffer unreceived.
C8_Witness ==
  \E i \in Units :
    /\ IsHandlerUnit(i)
    /\ PastCheck(i)
    /\ ret[i].Message.text = TimeoutText
    /\ gpc[i] = "deposited"
    /\ late[i]
    /\ Len(chan[i]) = 1

\* The outcome the caller of the executor has observed.
ObservedOutcome(i) ==
  IF ~PastCheck(i) THEN "Running"
  ELSE IF ret[i].Status = StatusCritical /\ ret[i].Message.text = TimeoutText
       THEN "TimedOut"
  ELSE IF KindOf(i) = "panic" /\ ret[i].Status = StatusCritical
          /\ ret[i].Message.text = PanicText
       THEN "Faulted"
  ELSE IF KindOf(i) = "return" /\ ret[i] = Behaviour(deps[i].HandlerFunc).result
       THEN "Completed"
  ELSE "Invalid"

C9_Stable ==
  \A i \in Units :
    (IsHandlerUnit(i) /\ ObservedOutcome(i) # "Running") =>
      (ObservedOutcome(i)' = ObservedOutcome(i) /\ ret'[i] = ret[i])

\* C9: the caller of the executor observes exactly one of Completed, Faulted
\* and TimedOut, and no later event changes the outcome once observed.
C9_OneTerminalOutcome ==
  /\ [](\A i \in Units : IsHandlerUnit(i) => ObservedOutcome(i) # "Invalid")
  /\ [][C9_Stable]_vars

\* The executor timed out and the goroutine deposited its result afterwards.
C9_Witness ==
  \E i \in Units :
    /\ IsHandlerUnit(i)
    /\ ObservedOutcome(i) = "TimedOut"
    /\ gpc[i] = "deposited"
    /\ late[i]
    /\ upc[i] = "done"

\* C10: once the bounded scope has ended (timer fired or caller's scope
\* cancelled) the executor returns, also when the handler never returns; the
\* handler function itself keeps running.
C10_ReturnsWhenScopeEnds ==
  /\ \A i \in 1..MaxDeps :
       (i \in Units /\ upc[i] = "select" /\ (texp[i] \/ ctxErr # "nil"))
         ~> (i \in Units /\ upc[i] # "select")
  /\ [](\A i \in Units :
          (IsHandlerUnit(i) /\ KindOf(i) = "hang" /\ upc[i] \notin {"idle", "start"})
            => gpc[i] = "running")

\* The executor returned the timeout result while the handler is still running.
C10_Witness ==
  \E i \in Units :
    /\ IsHandlerUnit(i)
    /\ KindOf(i) = "hang"
    /\ ctxErr # "nil"
    /\ ~late[i]
    /\ upc[i] = "done"
    /\ ret[i].Message.text = TimeoutText
    /\ gpc[i] = "running"

\* C11: checkDeps has no fatal error path. Whatever the descriptors do
\* (configuration error, transport error, cancellation, timeout, panic), the
\* call eventually returns, and what it returns has one slot per descriptor,
\* each holding the result of that descriptor's finished check.
C11_EventuallyReturns ==
  /\ <>Returned
  /\ [](Returned =>
         /\ Len(retResults) = N
         /\ \A i \in Units :
              /\ upc[i] = "done"
              /\ retResults[i].Name = deps[i].Name
              /\ retResults[i].Status = ret[i].Status
              /\ retResults[i].Message = ret[i].Message)

\* A list mixing a panicking handler with one that never returns has been
\* answered: the panic and the timeout are both reported as results.
C11_Witness ==
  /\ Returned
  /\ N = 2
  /\ KindOf(1) = "panic" /\ retResults[1].Message.text = PanicText
  /\ KindOf(2) = "hang" /\ retResults[2].Message.text = TimeoutText

\* C12: checkDeps never short-circuits. When it returns, the dispatch loop has
\* visited every descriptor, and every unit has finished its check and stored
\* its result in its slot, also when a result stored earlier was already
\* Critical.
C12_NoShortCircuit ==
  Returned =>
    /\ next = N + 1
    /\ wg = 0
    /\ \A i \in Units :
         /\ upc[i] = "done"
         /\ retResults[i] = results[i]
         /\ retResults[i].Status = ret[i].Status
         /\ retResults[i].Message = ret[i].Message

\* Unit 1 raised the running maximum to Critical; unit 2 stored its OK result
\* after that (its comparison found nothing to raise) and is in the answer.
C12_Witness ==
  /\ Returned
  /\ N = 2
  /\ raise[1]
  /\ retResults[1].Status = StatusCritical
  /\ ~raise[2]
  /\ retResults[2].Status = StatusOK
  /\ retResults[2].Message.text = "completed successfully"

CancelledText == "request cancelled"

C14_RequestAborted ==
  /\ [][\A i \in Units :
          (upc[i] = "do" /\ ctxErr # "nil" /\ upc'[i] = "classify") =>
            resp'[i].kind = "scope"]_vars
  /\ [](\A i \in Units :
          (PastCheck(i) /\ resp[i].kind = "scope") =>
            /\ ret[i].Status = StatusCritical
            /\ ret[i].Message.text = CancelledText
            /\ ret[i].Message.arg =
                 (IF ctxErr = "canceled" THEN "context canceled"
                                         ELSE "context deadline exceeded")
            /\ ret[i].Resource = deps[i].Connection
            /\ ret[i].StatusCode = 0)

\* The scope passed its deadline after checkDeps was called; the probe of
\* https://svc/ready was aborted and reported so.
C14_Witness ==
  /\ ~seen.pre
  /\ N = 1
  /\ PastCheck(1)
  /\ resp[1].kind = "scope"
  /\ ret[1].Status = StatusCritical
  /\ ret[1].Message.text = CancelledText
  /\ ret[1].Message.arg = "context deadline exceeded"
  /\ ret[1].Resource = "https://svc/ready"

\* C15: when the caller's scope ends after checkDeps was called and before a
\* handler function has ended (the function is still running, or it ended
\* only after the scope did), the executor returns Critical 'custom handler
\* timeout after <timeout>', naming the descriptor's timeout (10s for zero).
C15_CancelledWhileRunning ==
  \A i \in Units :
    ( /\ deps[i].HandlerFunc # "nil"
      /\ PastCheck(i)
      /\ ~seen.pre
      /\ \/ gpc[i] = "running" /\ ctxErr # "nil"
         \/ gpc[i] = "deposited" /\ seen.handoff[i] )
    => /\ ret[i].Status = StatusCritical
       /\ ret[i].Message.text = TimeoutText
       /\ ret[i].Message.arg =
            (IF deps[i].Timeout = 0 THEN "10s" ELSE DurationString(deps[i].Timeout))

\* The connection strings of the pool that parse with a scheme other than http
\* and https, and the scheme url.Parse finds in each.
OtherSchemeOf(u) ==
  CASE u = "ftp://files/x" -> "ftp"
    [] u = "file:///etc/passwd" -> "file"
    [] u = "" -> ""
    [] u = "not a url at all" -> ""
    [] OTHER -> "-"

\* C16: checkURL accepts only http and https. For a URL with any other scheme
\* (ftp, file, none) it issues no request at any time and returns Critical
\* 'unsupported URL scheme: <scheme>'; for an http or https URL it issues
\* exactly one request.
C16_OnlyHttpSchemes ==
  \A i \in Units :
    deps[i].HandlerFunc = "nil" =>
      /\ OtherSchemeOf(deps[i].Connection) # "-" =>
           /\ gets[i] = 0
           /\ resp[i] = NoResp
           /\ upc[i] \notin {"do", "classify"}
           /\ PastCheck(i) =>
                /\ ret[i].Status = StatusCritical
                /\ ret[i].Message.text = "unsupported URL scheme"
                /\ ret[i].Message.arg = OtherSchemeOf(deps[i].Connection)
      /\ (deps[i].Connection \in {"http://svc/health", "https://svc/ready"} /\ PastCheck(i)) =>
           /\ gets[i] = 1
           /\ ret[i].Message.text # "unsupported URL scheme"

\* The probe of an ftp URL has returned its rejection without a request.
C16_Witness ==
  /\ N = 1
  /\ deps[1].HandlerFunc = "nil"
  /\ deps[1].Connection = "ftp://files/x"
  /\ upc[1] = "done"
  /\ gets[1] = 0
  /\ ret[1].Status = StatusCritical
  /\ ret[1].Message.text = "unsupported URL scheme"
  /\ ret[1].Message.arg = "ftp"

\* the check of unit i is a URL probe that received a response
GotResponse(i) ==
  deps[i].HandlerFunc = "nil" /\ PastCheck(i) /\ resp[i].kind = "response"

\* C17: a received response is classified by its code: 500 and above Critical
\* 'server error', 400-499 Critical 'client error', 300-399 Warning
\* 'redirect', 200-299 OK 'ok' or Warning 'slow response', anything below 200
\* Critical 'unexpected status'; StatusCode is the received code and the
\* message of every class but 'ok' and 'slow response' names it.
C17_Classification ==
  \A i \in Units :
    GotResponse(i) =>
      LET c == resp[i].code
          r == ret[i]
      IN /\ r.StatusCode = c
         /\ c >= 500 => (r.Status = 3 /\ r.Message.text = "server error")
         /\ (c >= 400 /\ c <= 499) => (r.Status = 3 /\ r.Message.text = "client error")
         /\ (c >= 300 /\ c <= 399) => (r.Status = 2 /\ r.Message.text = "redirect")
         /\ (c >= 200 /\ c <= 299) =>
              \/ r.Status = 1 /\ r.Message.text = "ok"
              \/ r.Status = 2 /\ r.Message.text = "slow response"
         /\ c < 200 => (r.Status = 3 /\ r.Message.text = "unexpected status")
         /\ (c >= 300 \/ c < 200) => r.Message.arg = ToString(c)

\* The probe of https://svc/ready received exactly 500 and reported a server
\* error.
C17_Witness ==
  /\ N = 1
  /\ GotResponse(1)
  /\ resp[1].code = 500
  /\ ret[1].StatusCode = 500
  /\ ret[1].Status = 3
  /\ ret[1].Message.text = "server error"
  /\ ret[1].Message.arg = "500"

\* C18: a 2xx response is Warning 'slow response' exactly when the measured
\* time is above 3 s and OK 'ok' otherwise, so exactly 3 s is OK; the measured
\* time has no influence on the class of any other code.
C18_SlowThreshold ==
  \A i \in Units :
    GotResponse(i) =>
      LET c == resp[i].code
          e == resp[i].elapsed
          r == ret[i]
      IN /\ r.RequestDuration = e
         /\ (c >= 200 /\ c <= 299 /\ e > 3000) =>
              (r.Status = 2 /\ r.Message.text = "slow response")
         /\ (c >= 200 /\ c <= 299 /\ e <= 3000) =>
              (r.Status = 1 /\ r.Message.text = "ok")
         /\ (c < 200 \/ c > 299) =>
              /\ r.Status = (IF c >= 300 /\ c <= 399 THEN 2 ELSE 3)
              /\ r.Message.text \notin {"ok", "slow response"}

\* A 200 answered in exactly 3 s was reported OK.
C18_Witness ==
  /\ N = 1
  /\ GotResponse(1)
  /\ resp[1].code = 200
  /\ resp[1].elapsed = 3000
  /\ ret[1].Status = 1
  /\ ret[1].Message.text = "ok"

\* C19: in the stored result the Name is the descriptor's Name, whatever the
\* checker had set; the Resource is the checker's own Resource when that is
\* non-empty and the descriptor's Name when it is empty; the other fields are
\* the checker's.
C19_NameAndResource ==
  \A i \in Units :
    upc[i] = "done" =>
      /\ results[i].Name = deps[i].Name
      /\ ret[i].Resource # "" => results[i].Resource = ret[i].Resource
      /\ ret[i].Resource = "" => results[i].Resource = deps[i].Name
      /\ results[i].Status = ret[i].Status
      /\ results[i].Message = ret[i].Message
      /\ results[i].StatusCode = ret[i].StatusCode
      /\ results[i].RequestDuration = ret[i].RequestDuration
      /\ Returned => retResults[i] = results[i]

\* A timeout result, which carries no Resource, got its descriptor's name as
\* Resource; a URL result, which named itself after the URL, got the
\* descriptor's name as Name and kept the URL as Resource.
C19_Witness ==
  /\ Returned
  /\ N = 2
  /\ ret[1].Message.text = TimeoutText
  /\ ret[1].Resource = ""
  /\ retResults[1].Name = "stuck"
  /\ retResults[1].Resource = "stuck"
  /\ ret[2].Name = "http://svc/health"
  /\ retResults[2].Name = "api"
  /\ retResults[2].Resource = "http://svc/health"

\* C20: for each descriptor exactly one checker runs. With a handler function
\* present the executor runs it once and no request is issued, also when
\* Connection is set; without one the URL prober runs and no handler is
\* called. The descriptor's Timeout (10s for zero) is the bound the chosen
\* checker applies: it is named by the executor's timeout result and it is
\* the ceiling of the prober's client.
C20_OneCheckerPerDescriptor ==
  \A i \in Units :
    PastCheck(i) =>
      LET t == IF deps[i].Timeout = 0 THEN 10000 ELSE deps[i].Timeout
      IN IF deps[i].HandlerFunc # "nil"
         THEN /\ calls[i] = 1
              /\ gpc[i] # "none"
              /\ gets[i] = 0
              /\ resp[i] = NoResp
              /\ ret[i].Message.text = TimeoutText =>
                   ret[i].Message.arg = (IF t = 10000 THEN "10s" ELSE "50ms")
         ELSE /\ calls[i] = 0
              /\ gpc[i] = "none"
              /\ chan[i] = << >>
              /\ gets[i] <= 1
              /\ resp[i].kind = "response" => resp[i].elapsed <= t
              /\ resp[i].kind = "clienttimeout" => resp[i].elapsed = t

\* The descriptor with both a handler function and a Connection was checked
\* by its handler alone.
C20_Witness ==
  /\ N = 1
  /\ deps[1].HandlerFunc # "nil"
  /\ deps[1].Connection = "http://svc/health"
  /\ upc[1] = "done"
  /\ calls[1] = 1
  /\ gets[1] = 0
  /\ ret[1].StatusCode = 418
  /\ ret[1].Message.text = "connection refused"

\* C21: every result returned by checkDeps and the overall status carry one of
\* the four ranks NotSet, OK, Warning, Critical, whatever Status value a
\* handler function returned.
C21_StatusIsARank ==
  Returned =>
    /\ retStatus \in {0, 1, 2, 3}
    /\ \A i \in 1..Len(retResults) : retResults[i].Status \in {0, 1, 2, 3}

\* C22: the stored result of every handler check has StatusCode 0, whatever
\* the handler function returned and whether it completed, panicked or timed
\* out.
C22_HandlerStatusCodeZero ==
  \A i \in Units :
    (deps[i].HandlerFunc # "nil" /\ upc[i] = "done") =>
      /\ results[i].StatusCode = 0
      /\ Returned => retResults[i].StatusCode = 0

\* C23: a descriptor Timeout of zero stands for 10 seconds in both checkers
\* and any other Timeout is used as given. The executor's timeout result names
\* 10s for zero and the Timeout itself otherwise; the prober accepts a
\* response that took up to that long and gives up at exactly that time.
C23_DefaultTimeout ==
  \A i \in Units :
    PastCheck(i) =>
      /\ (deps[i].HandlerFunc # "nil" /\ ret[i].Message.text = TimeoutText) =>
           /\ deps[i].Timeout = 0 => ret[i].Message.arg = "10s"
           /\ deps[i].Timeout = 50 => ret[i].Message.arg = "50ms"
      /\ (deps[i].HandlerFunc = "nil" /\ resp[i].kind = "response") =>
           /\ deps[i].Timeout = 0 => resp[i].elapsed <= 10000
           /\ deps[i].Timeout = 50 => resp[i].elapsed <= 50
      /\ (deps[i].HandlerFunc = "nil" /\ resp[i].kind = "clienttimeout") =>
           /\ deps[i].Timeout = 0 => ret[i].RequestDuration = 10000
           /\ deps[i].Timeout = 50 => ret[i].RequestDuration = 50

\* A handler registered with Timeout zero timed out and the result names 10s.
C23_Witness ==
  /\ N = 1
  /\ deps[1].HandlerFunc # "nil"
  /\ deps[1].Timeout = 0
  /\ ctxErr = "nil"
  /\ PastCheck(1)
  /\ ret[1].Status = StatusCritical
  /\ ret[1].Message.text = TimeoutText
  /\ ret[1].Message.arg = "10s"

\* C24: ParseStatus fails exactly when the text is none of the four labels,
\* and then returns NotSet; on a label it returns that label's rank; for each
\* of the four ranks, parsing what String renders gives the rank back without
\* error.
C24_ParseStatus ==
  /\ enum.parsed.done =>
       /\ enum.parsed.failed <=> enum.text \notin {"NotSet", "OK", "Warning", "Critical"}
       /\ enum.parsed.failed => enum.parsed.status = 0
       /\ enum.text = "NotSet" => enum.parsed.status = 0
       /\ enum.text = "OK" => enum.parsed.status = 1
       /\ enum.text = "Warning" => enum.parsed.status = 2
       /\ enum.text = "Critical" => enum.parsed.status = 3
  /\ enum.back.done =>
       /\ enum.rank \in {0, 1, 2, 3} =>
            (~enum.back.failed /\ enum.back.status = enum.rank)
       /\ enum.rank \notin {0, 1, 2, 3} =>
            (enum.back.failed /\ enum.back.status = 0)

\* "Fatal" was rejected with NotSet, and Critical survived the round trip.
C24_Witness ==
  /\ enum.text = "Fatal"
  /\ enum.parsed.done
  /\ enum.parsed.failed
  /\ enum.parsed.status = 0
  /\ enum.rank = 3
  /\ enum.shown = "Critical"
  /\ enum.back.done
  /\ ~enum.back.failed
  /\ enum.back.status = 3

\* C25: String is total: it can be called on every rank, the four ranks
\* render as NotSet, OK, Warning, Critical and any other rank r renders as
\* Status(<r>).
C25_StringTotal ==
  /\ enum.shown = "-" => ENABLED CallString
  /\ enum.shown # "-" =>
       /\ enum.rank = 0 => enum.shown = "NotSet"
       /\ enum.rank = 1 => enum.shown = "OK"
       /\ enum.rank = 2 => enum.shown = "Warning"
       /\ enum.rank = 3 => enum.shown = "Critical"
       /\ enum.rank = 5 => enum.shown = "Status(5)"
       /\ enum.rank = -1 => enum.shown = "Status(-1)"
       /\ enum.rank \notin {0, 1, 2, 3} =>
            enum.shown = "Status(" \o ToString(enum.rank) \o ")"

\* Rank 5 was rendered as Status(5).
C25_Witness ==
  /\ enum.rank = 5
  /\ enum.shown = "Status(5)"

\* what a call returns when it draws on nothing but its own units first..last
OwnResults(first) == [j \in 1..N |-> Hsr(first + j - 1)]
OwnMaximum(first) ==
  MaxOf({StatusNotSet} \cup { Hsr(first + j - 1).Status : j \in 1..N })

\* C26: two calls of checkDeps over the same descriptor list, overlapping or one
\* after the other, share no running maximum, no lock and no result slots: each
\* returns the running maximum and the ordered results of its own units only.
C26_IndependentCalls ==
  /\ mu \in {0} \cup Units
  /\ other.mu \in {0} \cup UnitsB
  /\ Returned =>
       /\ retResults = OwnResults(1)
       /\ retStatus = OwnMaximum(1)
  /\ other.pc = "returned" =>
       /\ other.retResults = OwnResults(N + 1)
       /\ other.retStatus = OwnMaximum(N + 1)

\* Both calls checked the same descriptor; the first saw it healthy, the second
\* saw it fail, and each returned what its own unit found.
C26_Witness ==
  /\ N = 1
  /\ Returned
  /\ other.pc = "returned"
  /\ retStatus = StatusOK
  /\ other.retStatus = StatusCritical
  /\ retResults[1].Status = StatusOK
  /\ other.retResults[1].Status = StatusCritical

\* unit j leaves the locked section in this step
Stores(j) == upc[j] = "cs" /\ upc'[j] = "done"

\* C27: within one call each result slot is written exactly once, by the unit
\* dispatched for that index (a step changes the result list only by unit j
\* storing its own result in slot j as it leaves the locked section, and a unit
\* that has finished never runs again), and the caller reads the result list
\* and the overall status only after every unit has finished.
C27_SlotWrittenOnce ==
  [][ /\ \A j \in Units : Stores(j) => results' = [results EXCEPT ![j] = Hsr(j)]
      /\ (\A j \in Units : ~Stores(j)) => results' = results
      /\ \A j \in Units : upc[j] = "done" => upc'[j] = "done"
      /\ (mainpc = "loop" /\ mainpc' = "returned") =>
           /\ \A j \in Units : upc[j] = "done"
           /\ retResults' = results
           /\ retStatus' = status ]_vars

\* Two units stored different results, the second one first, and the caller
\* read both after they had finished.
C27_Witness ==
  /\ mainpc = "returned"
  /\ N = 2
  /\ \A j \in Units : upc[j] = "done"
  /\ results[1] # results[2]
  /\ results[1] # ZeroResult
  /\ results[2] # ZeroResult
  /\ raise[2]
  /\ ~raise[1]
  /\ retResults = results

\* the units inside the section that reads and updates the running maximum
InSection == { i \in Units : upc[i] = "cs" }

\* C28: at no reachable state are two units of one call inside the section
\* that compares and raises the running maximum, and a unit inside it holds
\* the lock; this holds for every N, N = 0 and N = 1 included.
C28_MutualExclusion ==
  /\ Cardinality(InSection) <= 1
  /\ \A i \in InSection : mu = i
  /\ InSection = {} => mu = 0

\* One unit is inside the section while the other, ready to compare, waits.
C28_Witness ==
  /\ N = 2
  /\ upc[2] = "cs"
  /\ mu = 2
  /\ upc[1] = "lock"
  /\ ~ENABLED Lock(1)

\* C29: no unit holds the aggregation lock while its check executes. The lock
\* is held only by a unit whose executor or prober has returned and which has
\* not finished yet; the holder can always release it; and a unit that is ready
\* to store is kept waiting only by a unit inside the section, never by a check
\* that is still running or never returns.
C29_NoLockDuringCheck ==
  /\ \A i \in Units : mu = i => (PastCheck(i) /\ upc[i] = "cs")
  /\ \A i \in Units : upc[i] = "cs" => ENABLED Unlock(i)
  /\ \A j \in Units : (upc[j] = "lock" /\ InSection = {}) => ENABLED Lock(j)

\* The handler of one unit hangs and its executor is still waiting, while the
\* other unit has taken the lock, stored its result and finished.
C29_Witness ==
  \E i, j \in Units :
    /\ IsHandlerUnit(i)
    /\ KindOf(i) = "hang"
    /\ upc[i] = "select"
    /\ gpc[i] = "running"
    /\ upc[j] = "done"
    /\ results[j] = Hsr(j)
    /\ results[j] # ZeroResult
    /\ mu = 0

FailedText == "HTTP request failed"

\* C30: a request that failed while the scope was live (a transport error or
\* the client's own timeout) is reported as Critical 'HTTP request failed' with
\* the transport error, never as 'request cancelled'; 'request cancelled' is
\* reported only for requests that failed because the scope had ended.
C30_FailureAttribution ==
  \A i \in Units :
    (PastCheck(i) /\ ~IsHandlerUnit(i)) =>
      /\ resp[i].kind \in {"transport", "clienttimeout"} =>
           /\ ret[i].Status = StatusCritical
           /\ ret[i].Message.text = FailedText
           /\ ret[i].Message.arg = TransportErrString(resp[i].kind)
      /\ ret[i].Message.text = CancelledText => resp[i].kind = "scope"

\* C31: every result returned by checkURL carries the measured elapsed time in
\* RequestDuration, whatever the outcome (every measured time of the model is
\* positive, the field's zero value is the unmeasured one).
C31_LatencyAlwaysMeasured ==
  \A i \in Units :
    (PastCheck(i) /\ ~IsHandlerUnit(i)) => ret[i].RequestDuration > 0

\* the descriptor has no handler function and no usable http/https target
NoUsableTarget(i) ==
  /\ ~IsHandlerUnit(i)
  /\ (ParseURL(deps[i].Connection).err # ""
      \/ ParseURL(deps[i].Connection).Scheme \notin {"http", "https"})

\* C32: a descriptor with no handler function and a Connection that is empty or
\* not an http/https URL yields a Critical result without any network call, and
\* therefore a Critical overall status.
C32_NoTargetIsCritical ==
  \A i \in Units :
    NoUsableTarget(i) =>
      /\ gets[i] = 0
      /\ PastCheck(i) => ret[i].Status = StatusCritical
      /\ Returned => (retResults[i].Status = StatusCritical /\ retStatus = StatusCritical)
      /\ mainpc = "responded" => httpStatus = 503

\* the executor of unit i returned a result of its own making
ExecutorMade(i) ==
  /\ IsHandlerUnit(i)
  /\ PastCheck(i)
  /\ ret[i].Message.text \in {TimeoutText, PanicText}

\* C33: the timeout result and the panic result of executeHandlerWithTimeout
\* carry an empty Name and an empty Resource, so after aggregation the Name and
\* the Resource of such a dependency both equal the descriptor's Name.
C33_ExecutorResultsUnnamed ==
  \A i \in Units :
    ExecutorMade(i) =>
      /\ ret[i].Name = ""
      /\ ret[i].Resource = ""
      /\ upc[i] = "done" =>
           (results[i].Name = deps[i].Name /\ results[i].Resource = deps[i].Name)
      /\ Returned =>
           (retResults[i].Name = deps[i].Name /\ retResults[i].Resource = deps[i].Name)

\* One handler panicked and another timed out; both dependencies are returned
\* under their descriptors' names.
C33_Witness ==
  \E i, j \in Units :
    /\ Returned
    /\ retResults[i].Message.text = PanicText
    /\ retResults[j].Message.text = TimeoutText
    /\ KindOf(j) = "hang"
    /\ retResults[i].Resource = deps[i].Name
    /\ retResults[j].Resource = deps[j].Name
    /\ deps[i].Name # ""
    /\ deps[j].Name # ""

\* C34: no result returned by checkURL has status NotSet: on every return path
\* the status is OK, Warning or Critical, so the results of a list of URL
\* descriptors only never contain a NotSet slot once every unit has stored.
C34_URLStatusSet ==
  /\ \A i \in Units :
       (PastCheck(i) /\ ~IsHandlerUnit(i)) =>
         ret[i].Status \in {StatusOK, StatusWarning, StatusCritical}
  /\ (Returned /\ \A i \in Units : ~IsHandlerUnit(i)) =>
       \A i \in Units :
         retResults[i].Status \in {StatusOK, StatusWarning, StatusCritical}

\* The endpoint answered with a code below 200, the one case no comparison of
\* the switch matches; the probe reported Critical.
C34_Witness ==
  /\ N = 1
  /\ Returned
  /\ ~IsHandlerUnit(1)
  /\ resp[1].kind = "response"
  /\ resp[1].code < 200
  /\ retResults[1].Status = StatusCritical
  /\ retResults[1].StatusCode = resp[1].code

\* C35: within one call each check is executed exactly once. A unit starts its
\* check in one step only, the one that takes it out of "start", and never
\* comes back to an earlier position; that step calls the handler function
\* once or leads to at most one GET; a unit past its check has called its
\* handler exactly once or issued at most one GET, whatever the outcome was.
C35_NoRetry ==
  /\ [][\A i \in Units :
          /\ calls'[i] # calls[i] => (upc[i] = "start" /\ calls'[i] = 1)
          /\ gets'[i] # gets[i] => (upc[i] = "start" /\ gets'[i] = 1)
          /\ upc[i] \notin {"idle", "start"} => upc'[i] \notin {"idle", "start"}
          /\ PastCheck(i) => PastCheck(i)']_vars
  /\ [](\A i \in Units :
          /\ calls[i] + gets[i] <= 1
          /\ PastCheck(i) =>
               (IF IsHandlerUnit(i) THEN calls[i] = 1 /\ gets[i] = 0
                                    ELSE calls[i] = 0))

\* A handler timed out and a request failed in the same call; the function was
\* called once and one GET was issued.
C35_Witness ==
  \E i, j \in Units :
    /\ Returned
    /\ IsHandlerUnit(i)
    /\ retResults[i].Message.text = TimeoutText
    /\ calls[i] = 1
    /\ ~IsHandlerUnit(j)
    /\ resp[j].kind = "transport"
    /\ retResults[j].Status = StatusCritical
    /\ gets[j] = 1

\* the slots already written: those of the units that have stored and finished
Written == { i \in Units : upc[i] = "done" }

\* C36: whenever no unit holds the lock, the running maximum equals the maximum
\* rank among the result slots already written, NotSet when none is written.
C36_RunningMaximum ==
  mu = 0 =>
    status = (IF Written = {} THEN StatusNotSet
                              ELSE MaxOf({ results[i].Status : i \in Written }))

\* C37: if the handler goroutine takes the discard branch, the caller returns
\* the timeout result. Once the result is discarded resultChan is empty for
\* good; an executor still waiting can take the Done case of its select and no
\* other; an executor that has returned has returned the timeout result.
C37_DiscardMeansTimeout ==
  \A i \in Units :
    gpc[i] = "discarded" =>
      /\ chan[i] = << >>
      /\ upc[i] \in {"select", "lock", "cs", "done"}
      /\ upc[i] = "select" => (ENABLED ReceiveDone(i) /\ ~ENABLED ReceiveResult(i))
      /\ PastCheck(i) =>
           /\ ret[i].Status = 3
           /\ ret[i].Message.text = "custom handler timeout after"
           /\ ret[i].Name = ""

\* The handler panicked after the scope had ended, the recovered panic result
\* was discarded, and the dependency is reported as timed out.
C37_Witness ==
  \E i \in Units :
    /\ IsHandlerUnit(i)
    /\ KindOf(i) = "panic"
    /\ gpc[i] = "discarded"
    /\ gval[i].Message.text = PanicText
    /\ upc[i] = "done"
    /\ results[i].Message.text = TimeoutText

\* C38: after checkDeps has returned nothing writes to the result list or to
\* the overall status: what the caller holds is what was returned, and a step
\* taken after the return (a handler goroutine ending late) changes at most
\* that goroutine's own handoff channel and position.
C38_NothingWritesAfterReturn ==
  /\ [](Returned => (retResults = results /\ retStatus = status /\ mu = 0 /\ wg = 0))
  /\ [][Returned =>
          /\ results' = results
          /\ status' = status
          /\ retResults' = retResults
          /\ retStatus' = retStatus
          /\ ret' = ret
          /\ upc' = upc
          /\ \A i \in Units :
               chan'[i] # chan[i] => (gpc[i] = "running" /\ gpc'[i] = "deposited")]_vars

\* checkDeps has returned the timeout result for a dependency whose handler
\* ended all the same; its result lies in the handoff channel, unread.
C38_Witness ==
  \E i \in Units :
    /\ Returned
    /\ IsHandlerUnit(i)
    /\ retResults[i].Message.text = TimeoutText
    /\ gpc[i] = "deposited"
    /\ Len(chan[i]) = 1
    /\ chan[i][1] # retResults[i]
    /\ results = retResults

\* C39: Handler answers 503 if and only if the overall status is Critical
\* exactly; every other overall status, a rank above Critical that a handler
\* function returned and that won the maximum included, is answered with 200.
C39_UnavailableIffCritical ==
  mainpc = "responded" =>
    /\ httpStatus \in {200, 503}
    /\ httpStatus = 503 <=> retStatus = 3
    /\ retStatus > 3 => httpStatus = 200
    /\ retStatus < 0 => httpStatus = 200

\* A handler's rank 4 won the maximum over a Critical result and the request
\* was answered with 200.
C39_Witness ==
  /\ mainpc = "responded"
  /\ N = 2
  /\ retResults[1].Status = StatusCritical
  /\ retResults[2].Status = 4
  /\ retStatus = 4
  /\ httpStatus = 200

\* C40: executeHandlerWithTimeout starts the handler function whether or not
\* the caller's scope has already ended: a handler unit at the call can always
\* enter the executor, a unit that has entered it has had its function invoked
\* once, and with the scope ended before the call only the wait is cut short.
C40_HandlerAlwaysStarted ==
  \A i \in Units :
    IsHandlerUnit(i) =>
      /\ upc[i] = "start" => ENABLED ExecStart(i)
      /\ upc[i] \notin {"idle", "start"} =>
           /\ calls[i] = 1
           /\ gpc[i] \in {"running", "deposited", "discarded"}
      /\ (seen.pre /\ upc[i] = "select") => ENABLED ReceiveDone(i)

\* The scope was cancelled before the call; the function was invoked all the
\* same and returned, its result was dropped, and the executor reported a
\* timeout.
C40_Witness ==
  \E i \in Units :
    /\ seen.pre
    /\ IsHandlerUnit(i)
    /\ KindOf(i) = "return"
    /\ calls[i] = 1
    /\ gpc[i] = "discarded"
    /\ upc[i] = "done"
    /\ results[i].Message.text = TimeoutText

==============================================================================
